---- MODULE Spec2Model ----
(***************************************************************************)
(* LearningStack (misc/cdk/learning/lib/learning-stack.ts): the            *)
(* constructor of the CDK stack, statement by statement.  The construct    *)
(* tree is explicit state: every stack registered in a scope, and under    *)
(* each stack the constructs its constructor has declared so far, in       *)
(* creation order.  A construct is referred to by its handle, its position *)
(* among the children of its stack; 0 is the handle of nothing.            *)
(***************************************************************************)
EXTENDS Integers, Sequences, FiniteSets, TLC

\* how many LearningStack constructions one behaviour holds
MaxStacks == 2

\* the constructor's inputs: scope, id, props (line 8)
Scopes == {"app1", "app2"}
Ids == {"LearningStack", "Dev"}
Undefined == [undefined |-> TRUE]
StackPropsSet == {Undefined, [description |-> "learning"]}

VARIABLES
  stacks,              \* the construct tree: the stacks, each with its children
  pc,                  \* the statement the running constructor is at
  this,                \* the stack under construction (0: no constructor runs)
  vpc,                 \* const vpc (line 11)
  bastionSg,           \* const bastionSg (line 24)
  allowFromBastionSg,  \* const allowFromBastionSg (line 29)
  hash,                \* const hash (line 39)
  bucket,              \* const bucket (line 41)
  bastion              \* const bastion (line 47)

vars == <<stacks, pc, this, vpc, bastionSg, allowFromBastionSg, hash, bucket, bastion>>

(***************************************************************************)
(* node:crypto's MD5 (lines 39-42).  A 32-bit word is <<high, low>>, two   *)
(* 16-bit halves, and every sum is taken modulo 2^32.                      *)
(***************************************************************************)
\* F applied to the values of its arguments, each evaluated once: TLC evaluates
\* an operator's argument anew at each use, a bound variable holds a value
Once1(F(_), a) == CHOOSE r \in {F(x) : x \in {a}} : TRUE
Once2(F(_, _), a, b) == CHOOSE r \in {F(x, y) : x \in {a}, y \in {b}} : TRUE

Digits == <<"0", "1", "2", "3", "4", "5", "6", "7", "8", "9">>

LowerCase ==
  <<"a", "b", "c", "d", "e", "f", "g", "h", "i", "j", "k", "l", "m",
    "n", "o", "p", "q", "r", "s", "t", "u", "v", "w", "x", "y", "z">>

\* the code point of a character of a string given to hash.update
CharCode(c) ==
  IF c = "-" THEN 45
  ELSE IF \E n \in 48..57 : Digits[n - 47] = c
       THEN CHOOSE n \in 48..57 : Digits[n - 47] = c
       ELSE CHOOSE n \in 97..122 : LowerCase[n - 96] = c

RECURSIVE Utf8(_)
Utf8(str) ==
  Once1(LAMBDA s : IF s = <<>> THEN <<>> ELSE <<CharCode(Head(s))>> \o Utf8(Tail(s)), str)

Pow2(n) == 2 ^ n

\* x AND y of two n-bit numbers
RECURSIVE And16(_, _, _)
And16(x, y, n) ==
  IF n = 0 THEN 0
  ELSE ((x % 2) * (y % 2)) + (2 * And16(x \div 2, y \div 2, n - 1))

AndH(x, y) == Once2(LAMBDA u, v : And16(u, v, 16), x, y)
OrH(x, y)  == Once2(LAMBDA u, v : u + v - AndH(u, v), x, y)
XorH(x, y) == Once2(LAMBDA u, v : u + v - (2 * AndH(u, v)), x, y)

AndW(a, b) == Once2(LAMBDA u, v : <<AndH(u[1], v[1]), AndH(u[2], v[2])>>, a, b)
OrW(a, b)  == Once2(LAMBDA u, v : <<OrH(u[1], v[1]), OrH(u[2], v[2])>>, a, b)
XorW(a, b) == Once2(LAMBDA u, v : <<XorH(u[1], v[1]), XorH(u[2], v[2])>>, a, b)
NotW(a)    == Once1(LAMBDA u : <<65535 - u[1], 65535 - u[2]>>, a)

\* a + b modulo 2^32
AddW(a, b) ==
  Once2(LAMBDA u, v :
          <<(u[1] + v[1] + ((u[2] + v[2]) \div 65536)) % 65536, (u[2] + v[2]) % 65536>>,
        a, b)

\* a rotated left by s bits, 0 < s < 32
RotlW(a, s) ==
  Once1(LAMBDA u :
          LET w == IF s >= 16 THEN <<u[2], u[1]>> ELSE u
              r == s % 16
          IN  <<((w[1] * Pow2(r)) % 65536) + (w[2] \div Pow2(16 - r)),
                ((w[2] * Pow2(r)) % 65536) + (w[1] \div Pow2(16 - r))>>,
        a)

\* floor(2^32 * abs(sin(i + 1))), i = 0..63
K16 ==
  <<
    <<55146, 42104>>, <<59591, 46934>>, <<9248, 28891>>, <<49597, 52974>>,
    <<62844, 4015>>, <<18311, 50730>>, <<43056, 17939>>, <<64838, 38145>>,
    <<27008, 39128>>, <<35652, 63407>>, <<65535, 23473>>, <<35164, 55230>>,
    <<27536, 4386>>, <<64920, 29075>>, <<42617, 17294>>, <<18868, 2081>>,
    <<63006, 9570>>, <<49216, 45888>>, <<9822, 23121>>, <<59830, 51114>>,
    <<54831, 4189>>, <<580, 5203>>, <<55457, 59009>>, <<59347, 64456>>,
    <<8673, 52710>>, <<49975, 2006>>, <<62677, 3463>>, <<17754, 5357>>,
    <<43491, 59653>>, <<64751, 41976>>, <<26479, 729>>, <<36138, 19594>>,
    <<65530, 14658>>, <<34673, 63105>>, <<28061, 24866>>, <<64997, 14348>>,
    <<42174, 59972>>, <<19422, 53161>>, <<63163, 19296>>, <<48831, 48240>>,
    <<10395, 32454>>, <<60065, 10234>>, <<54511, 12421>>, <<1160, 7429>>,
    <<55764, 53305>>, <<59099, 39397>>, <<8098, 31992>>, <<50348, 22117>>,
    <<62505, 8772>>, <<17194, 65431>>, <<43924, 9127>>, <<64659, 41017>>,
    <<25947, 22979>>, <<36620, 52370>>, <<65519, 62589>>, <<34180, 24017>>,
    <<28584, 32335>>, <<65068, 59104>>, <<41729, 17172>>, <<19976, 4513>>,
    <<63315, 32386>>, <<48442, 62005>>, <<10967, 53947>>, <<60294, 54161>>
  >>

\* the rotation of each step
Shifts ==
  <<
    7, 12, 17, 22, 7, 12, 17, 22, 7, 12, 17, 22, 7, 12, 17, 22,
    5, 9, 14, 20, 5, 9, 14, 20, 5, 9, 14, 20, 5, 9, 14, 20,
    4, 11, 16, 23, 4, 11, 16, 23, 4, 11, 16, 23, 4, 11, 16, 23,
    6, 10, 15, 21, 6, 10, 15, 21, 6, 10, 15, 21, 6, 10, 15, 21
  >>

\* 0x67452301, 0xefcdab89, 0x98badcfe, 0x10325476
Md5Init == <<<<26437, 8961>>, <<61389, 43913>>, <<39098, 56574>>, <<4146, 21622>>>>

RECURSIVE Zeros(_)
Zeros(n) == IF n = 0 THEN <<>> ELSE <<0>> \o Zeros(n - 1)

\* the length of an n-byte message in bits, as 8 little-endian bytes (n < 2^28)
LenBytes(n) ==
  LET bits == 8 * n
  IN  <<bits % 256, (bits \div 256) % 256, (bits \div 65536) % 256,
        (bits \div 16777216) % 256, 0, 0, 0, 0>>

\* the message, 0x80, zeros up to 56 modulo 64, the length
Md5Pad(msg) ==
  LET n == Len(msg)
      z == (55 - n) % 64
  IN  msg \o <<128>> \o Zeros(z) \o LenBytes(n)

\* word j (0..15) of a 64-byte block, little-endian
BlockWord(blk, j) ==
  <<blk[(4 * j) + 3] + (256 * blk[(4 * j) + 4]), blk[(4 * j) + 1] + (256 * blk[(4 * j) + 2])>>

Md5F(i, b, c, d) ==
  IF i < 16 THEN OrW(AndW(b, c), AndW(NotW(b), d))
  ELSE IF i < 32 THEN OrW(AndW(d, b), AndW(NotW(d), c))
  ELSE IF i < 48 THEN XorW(XorW(b, c), d)
  ELSE XorW(c, OrW(b, NotW(d)))

Md5G(i) ==
  IF i < 16 THEN i
  ELSE IF i < 32 THEN ((5 * i) + 1) % 16
  ELSE IF i < 48 THEN ((3 * i) + 5) % 16
  ELSE (7 * i) % 16

\* step i (0..63) on the state <<a, b, c, d>>
Md5Round(st, blk, i) ==
  LET a == st[1]
      b == st[2]
      c == st[3]
      d == st[4]
      f == AddW(AddW(AddW(Md5F(i, b, c, d), a), K16[i + 1]), BlockWord(blk, Md5G(i)))
  IN  <<d, AddW(b, RotlW(f, Shifts[i + 1])), b, c>>

\* steps lo .. hi - 1 in order, on the state st
RECURSIVE Md5Rounds(_, _, _, _)
Md5Rounds(st, blk, lo, hi) ==
  IF hi - lo = 1 THEN Md5Round(st, blk, lo)
  ELSE Once1(LAMBDA s : Md5Rounds(s, blk, (lo + hi) \div 2, hi),
             Md5Rounds(st, blk, lo, (lo + hi) \div 2))

\* the state after one block: the block's 64 steps, added to the state before
Md5Block(st, blk) ==
  Once2(LAMBDA s, m :
          Once1(LAMBDA r : <<AddW(s[1], r[1]), AddW(s[2], r[2]),
                             AddW(s[3], r[3]), AddW(s[4], r[4])>>,
                Md5Rounds(s, m, 0, 64)),
        st, blk)

RECURSIVE Md5Blocks(_, _)
Md5Blocks(st, bytes) ==
  IF bytes = <<>> THEN st
  ELSE Once2(LAMBDA s, rest : Md5Blocks(s, rest),
             Md5Block(st, SubSeq(bytes, 1, 64)), SubSeq(bytes, 65, Len(bytes)))

\* the four bytes of a word, little-endian
WordBytes(w) == <<w[2] % 256, w[2] \div 256, w[1] % 256, w[1] \div 256>>

\* the 16 bytes of the MD5 digest of a sequence of bytes
Md5(msg) ==
  Once1(LAMBDA st : WordBytes(st[1]) \o WordBytes(st[2]) \o WordBytes(st[3]) \o WordBytes(st[4]),
        Once1(LAMBDA bytes : Md5Blocks(Md5Init, bytes),
              Once1(LAMBDA m : Md5Pad(m), msg)))

HexDigits == <<"0", "1", "2", "3", "4", "5", "6", "7", "8", "9", "a", "b", "c", "d", "e", "f">>

\* bytes as lowercase hexadecimal, two digits each
RECURSIVE Hex(_)
Hex(bytes) ==
  Once1(LAMBDA b :
          IF b = <<>> THEN ""
          ELSE HexDigits[(Head(b) \div 16) + 1] \o HexDigits[(Head(b) % 16) + 1] \o Hex(Tail(b)),
        bytes)

(***************************************************************************)
(* The hash object of lines 39-42: createHash, update, digest('hex').      *)
(***************************************************************************)
NoHash == [algorithm |-> "none", data |-> <<>>, finalized |-> FALSE]

createHash(algorithm) == [algorithm |-> algorithm, data |-> <<>>, finalized |-> FALSE]

\* hash.update(str): the UTF-8 bytes of str follow the bytes already given
update(h, str) == [h EXCEPT !.data = h.data \o Utf8(str)]

\* hash.digest('hex'): lowercase hexadecimal of the MD5 of the bytes given
digest(h) == Hex(Md5(h.data))

\* the argument of hash.update (line 40), character by character
Label == <<"l", "e", "a", "r", "n", "i", "n", "g", "-", "b", "u", "c", "k", "e", "t">>

LabelSalted == Label \o <<Digits[Len(stacks) + 1]>>

UpdateArg == Label

BucketNameWithId(hex) == "learning-bucket-" \o stacks[this].id \o "-" \o hex

\* the template literal of line 42
BucketName(hex) == "learning-bucket-" \o hex

(***************************************************************************)
(* The properties each construct is declared with.                         *)
(***************************************************************************)
VpcPropsAutoAssign ==
  [ipAddresses |-> "10.0.0.0/16",
   maxAzs |-> 1,
   subnetConfiguration |->
     <<[cidrMask |-> 24, name |-> "Public", subnetType |-> "PUBLIC",
        mapPublicIpOnLaunch |-> TRUE]>>]

\* lines 11-22
VpcProps ==
  [ipAddresses |-> "10.0.0.0/16",
   maxAzs |-> 1,
   subnetConfiguration |->
     <<[cidrMask |-> 24, name |-> "Public", subnetType |-> "PUBLIC",
        mapPublicIpOnLaunch |-> FALSE]>>]

\* new ec2.SecurityGroup(this, name, {securityGroupName: name, vpc}): lines 24-32
\* the group is created with no ingress rule
SecurityGroup(name, v) ==
  [kind |-> "SecurityGroup", id |-> name,
   props |-> [securityGroupName |-> name, vpc |-> v],
   ingress |-> <<>>]

\* ec2.Port.tcp(port)
Tcp(port) == [protocol |-> "tcp", fromPort |-> port, toPort |-> port]

IngressRuleAllTcp(peer) ==
  [peer |-> peer, connection |-> [protocol |-> "tcp", fromPort |-> 0, toPort |-> 65535]]

\* the rule of lines 34-37: from the peer, ec2.Port.tcp(22)
IngressRule(peer) == [peer |-> peer, connection |-> Tcp(22)]

\* sg.addIngressRule(rule): the rule joins the rules of group sg, and of no other
addIngressRule(children, sg, rule) ==
  [children EXCEPT ![sg].ingress = Append(@, rule)]

BucketPropsRetain(name) ==
  [bucketName |-> name, removalPolicy |-> "RETAIN", autoDeleteObjects |-> FALSE]

\* lines 41-45
BucketProps(name) ==
  [bucketName |-> name, removalPolicy |-> "DESTROY", autoDeleteObjects |-> TRUE]

BastionPropsSmallVolume(v, sg) ==
  [vpc |-> v,
   instanceName |-> "bastion",
   instanceType |-> [class |-> "C7I", size |-> "XLARGE2"],
   securityGroup |-> sg,
   blockDevices |-> <<[deviceName |-> "/dev/sda1", volume |-> [ebs |-> 8]]>>]

\* lines 47-61
BastionProps(v, sg) ==
  [vpc |-> v,
   instanceName |-> "bastion",
   instanceType |-> [class |-> "C7I", size |-> "XLARGE2"],
   securityGroup |-> sg,
   blockDevices |-> <<[deviceName |-> "/dev/xvda", volume |-> [ebs |-> 30]]>>]

\* cdk.aws_iam.ManagedPolicy.fromAwsManagedPolicyName(name)
fromAwsManagedPolicyName(name) == [managedPolicyName |-> name]

ReadOnlyPolicy == fromAwsManagedPolicyName("ReadOnlyAccess")

\* the argument of addManagedPolicy (line 63)
BastionPolicy == fromAwsManagedPolicyName("AdministratorAccess")

(***************************************************************************)
(* The constructor's statements in program order, and the one that follows *)
(* each (lines 8-64).                                                      *)
(***************************************************************************)
Statements ==
  <<"vpc", "bastionSg", "allowFromBastionSg", "addIngressRule", "createHash",
    "update", "bucket", "bastion", "addManagedPolicy", "return">>

Index(p) == CHOOSE n \in 1..Len(Statements) : Statements[n] = p

PcAfterSkipBastionSg(p) ==
  IF p = "vpc" THEN "allowFromBastionSg" ELSE Statements[Index(p) + 1]

PcAfter(p) == Statements[Index(p) + 1]

\* new X(this, ...): the construct becomes the last child of the stack
AddChild(c) == [stacks EXCEPT ![this].children = Append(@, c)]

NewHandle == Len(stacks[this].children) + 1

Init ==
  /\ stacks = <<>>
  /\ pc = "idle"
  /\ this = 0
  /\ vpc = 0
  /\ bastionSg = 0
  /\ allowFromBastionSg = 0
  /\ hash = NoHash
  /\ bucket = 0
  /\ bastion = 0

\* new LearningStack(scope, id, props) up to super(scope, id, props), lines 8-9:
\* the stack registers under its scope, where no two children share an id
NewLearningStack(scope, id, props) ==
  /\ pc = "idle"
  /\ Len(stacks) < MaxStacks
  /\ \A k \in 1..Len(stacks) : ~(stacks[k].scope = scope /\ stacks[k].id = id)
  /\ stacks' = Append(stacks, [scope |-> scope, id |-> id, props |-> props, children |-> <<>>])
  /\ this' = Len(stacks) + 1
  /\ pc' = Statements[1]
  /\ UNCHANGED <<vpc, bastionSg, allowFromBastionSg, hash, bucket, bastion>>

\* lines 11-22
NewVpc ==
  /\ pc = "vpc"
  /\ stacks' = AddChild([kind |-> "Vpc", id |-> "Vpc", props |-> VpcProps])
  /\ vpc' = NewHandle
  /\ pc' = PcAfter(pc)
  /\ UNCHANGED <<this, bastionSg, allowFromBastionSg, hash, bucket, bastion>>

\* lines 24-27
NewBastionSg ==
  /\ pc = "bastionSg"
  /\ stacks' = AddChild(SecurityGroup("from-bastion", vpc))
  /\ bastionSg' = NewHandle
  /\ pc' = PcAfter(pc)
  /\ UNCHANGED <<this, vpc, allowFromBastionSg, hash, bucket, bastion>>

\* lines 29-32
NewAllowFromBastionSg ==
  /\ pc = "allowFromBastionSg"
  /\ stacks' = AddChild(SecurityGroup("allow-from-bastion", vpc))
  /\ allowFromBastionSg' = NewHandle
  /\ pc' = PcAfter(pc)
  /\ UNCHANGED <<this, vpc, bastionSg, hash, bucket, bastion>>

AddIngressRuleToBastionSg ==
  /\ pc = "addIngressRule"
  /\ stacks' = [stacks EXCEPT ![this].children =
                  addIngressRule(@, bastionSg, IngressRule(allowFromBastionSg))]
  /\ pc' = PcAfter(pc)
  /\ UNCHANGED <<this, vpc, bastionSg, allowFromBastionSg, hash, bucket, bastion>>

\* lines 34-37
AddIngressRule ==
  /\ pc = "addIngressRule"
  /\ stacks' = [stacks EXCEPT ![this].children =
                  addIngressRule(@, allowFromBastionSg, IngressRule(bastionSg))]
  /\ pc' = PcAfter(pc)
  /\ UNCHANGED <<this, vpc, bastionSg, allowFromBastionSg, hash, bucket, bastion>>

\* line 39
CreateHash ==
  /\ pc = "createHash"
  /\ hash' = createHash("md5")
  /\ pc' = PcAfter(pc)
  /\ UNCHANGED <<stacks, this, vpc, bastionSg, allowFromBastionSg, bucket, bastion>>

\* line 40
HashUpdate ==
  /\ pc = "update"
  /\ hash' = update(hash, UpdateArg)
  /\ pc' = PcAfter(pc)
  /\ UNCHANGED <<stacks, this, vpc, bastionSg, allowFromBastionSg, bucket, bastion>>

\* lines 41-45; the digest is taken while the properties are built (line 42)
NewBucket ==
  /\ pc = "bucket"
  /\ stacks' = AddChild([kind |-> "Bucket", id |-> "bucket",
                         props |-> BucketProps(BucketName(digest(hash)))])
  /\ hash' = [hash EXCEPT !.finalized = TRUE]
  /\ bucket' = NewHandle
  /\ pc' = PcAfter(pc)
  /\ UNCHANGED <<this, vpc, bastionSg, allowFromBastionSg, bastion>>

\* a bastion host declared without securityGroup makes a group of its own
NewBastionOwnSg ==
  /\ pc = "bastion"
  /\ stacks' = [stacks EXCEPT ![this].children =
                  @ \o <<SecurityGroup("BastionSecurityGroup", vpc),
                         [kind |-> "BastionHostLinux", id |-> "bastion",
                          props |-> BastionProps(vpc, Len(@) + 1),
                          role |-> [managedPolicies |-> <<>>]]>>]
  /\ bastion' = NewHandle + 1
  /\ pc' = PcAfter(pc)
  /\ UNCHANGED <<this, vpc, bastionSg, allowFromBastionSg, hash, bucket>>

\* lines 47-61; the host comes with its role, which holds no managed policy yet
NewBastion ==
  /\ pc = "bastion"
  /\ stacks' = AddChild([kind |-> "BastionHostLinux", id |-> "bastion",
                         props |-> BastionProps(vpc, bastionSg),
                         role |-> [managedPolicies |-> <<>>]])
  /\ bastion' = NewHandle
  /\ pc' = PcAfter(pc)
  /\ UNCHANGED <<this, vpc, bastionSg, allowFromBastionSg, hash, bucket>>

\* line 63
AddManagedPolicy ==
  /\ pc = "addManagedPolicy"
  /\ stacks' = [stacks EXCEPT ![this].children[bastion].role.managedPolicies =
                  Append(@, BastionPolicy)]
  /\ pc' = PcAfter(pc)
  /\ UNCHANGED <<this, vpc, bastionSg, allowFromBastionSg, hash, bucket, bastion>>

\* line 64: the constructor returns and its locals are gone
Return ==
  /\ pc = "return"
  /\ pc' = "idle"
  /\ this' = 0
  /\ vpc' = 0
  /\ bastionSg' = 0
  /\ allowFromBastionSg' = 0
  /\ hash' = NoHash
  /\ bucket' = 0
  /\ bastion' = 0
  /\ UNCHANGED stacks

\* one statement of the running constructor
Step ==
  \/ NewVpc
  \/ NewBastionSg
  \/ NewAllowFromBastionSg
  \/ AddIngressRule
  \/ CreateHash
  \/ HashUpdate
  \/ NewBucket
  \/ NewBastion
  \/ AddManagedPolicy
  \/ Return

Next ==
  \/ \E scope \in Scopes, id \in Ids, props \in StackPropsSet :
       NewLearningStack(scope, id, props)
  \/ Step

Spec == Init /\ [][Next]_vars

(***************************************************************************)
(* Reading the construct tree.                                             *)
(***************************************************************************)
Children(k) == stacks[k].children

Handles(k) == 1..Len(Children(k))

\* the children of stack k of one kind, and those with one construct id
OfKind(k, kind) == {n \in Handles(k) : Children(k)[n].kind = kind}
ById(k, id) == {n \in Handles(k) : Children(k)[n].id = id}

\* the constructor of stack k has run its last statement
Finished(k) == k # this \/ pc = "return"

\* the handles construct c holds: a group's network and the sources of its
\* rules (lines 26, 31, 35), a host's network and group (lines 48, 54)
Refs(c) ==
  IF c.kind = "SecurityGroup"
    THEN {c.props.vpc} \cup {c.ingress[i].peer : i \in 1..Len(c.ingress)}
  ELSE IF c.kind = "BastionHostLinux"
    THEN {c.props.vpc, c.props.securityGroup}
  ELSE {}

\* the constructs reached from those of S in one to n references
RECURSIVE Reach(_, _, _)
Reach(k, from, n) ==
  LET next == UNION {Refs(Children(k)[m]) \cap Handles(k) : m \in from}
  IN  IF n = 0 THEN {} ELSE next \cup Reach(k, next, n - 1)

Acyclic(k) == \A n \in Handles(k) : n \notin Reach(k, {n}, Len(Children(k)))

ExpectedName == "learning-bucket-c518d6b29ae8835e70c5573e0073f8fe"

\* kind and construct id of the five entities, in the order of the source
Entities ==
  <<<<"Vpc", "Vpc">>, <<"SecurityGroup", "from-bastion">>,
    <<"SecurityGroup", "allow-from-bastion">>, <<"Bucket", "bucket">>,
    <<"BastionHostLinux", "bastion">>>>

(***************************************************************************)
(* The claims.                                                             *)
(***************************************************************************)

\* C1: every run declares the bucket name "learning-bucket-" followed by the
\* lowercase hexadecimal MD5 digest of "learning-bucket", whatever runs came
\* before it; so any two runs declare the same name.
C1_BucketNameIsDigest ==
  \A k \in 1..Len(stacks) : \A n \in OfKind(k, "Bucket") :
    Children(k)[n].props.bucketName = ExpectedName

\* two runs, one after the other, have each declared their bucket
C1_Witness ==
  /\ Len(stacks) = 2
  /\ \A k \in 1..2 : OfKind(k, "Bucket") # {}

\* C2: the internal group (allow-from-bastion) never holds a rule other than
\* TCP 22 from the bastion group object, never holds more than one, and holds
\* exactly that one when the constructor has finished.
C2_InternalIngress ==
  \A k \in 1..Len(stacks) : \A n \in ById(k, "allow-from-bastion") :
    LET rules == Children(k)[n].ingress
    IN  /\ Len(rules) <= 1
        /\ \A i \in 1..Len(rules) :
             /\ rules[i].peer \in ById(k, "from-bastion") \cap OfKind(k, "SecurityGroup")
             /\ k = this => rules[i].peer = bastionSg
             /\ rules[i].connection = [protocol |-> "tcp", fromPort |-> 22, toPort |-> 22]
        /\ Finished(k) => Len(rules) = 1

\* a constructor has finished and the internal group holds its rule
C2_Witness ==
  /\ pc = "return"
  /\ Len(Children(this)[allowFromBastionSg].ingress) = 1

\* C3: the bastion group (from-bastion) has no ingress rule in any state.
C3_BastionSgNoIngress ==
  \A k \in 1..Len(stacks) : \A n \in ById(k, "from-bastion") :
    Children(k)[n].ingress = <<>>

\* the end of a constructor: the bastion group is the source of the internal
\* group's rule and the group of the bastion host
C3_Witness ==
  /\ pc = "return"
  /\ Children(this)[bastionSg].id = "from-bastion"
  /\ \E i \in 1..Len(Children(this)[allowFromBastionSg].ingress) :
       Children(this)[allowFromBastionSg].ingress[i].peer = bastionSg
  /\ Children(this)[bastion].props.securityGroup = bastionSg

\* C4: a declared bucket has removal policy destroy and auto-delete-objects
\* true, in the state that declares it and in every later one.
C4_BucketTeardown ==
  \A k \in 1..Len(stacks) : \A n \in OfKind(k, "Bucket") :
    /\ Children(k)[n].props.removalPolicy = "DESTROY"
    /\ Children(k)[n].props.autoDeleteObjects = TRUE

\* the statements after the bucket's declaration have run
C4_Witness ==
  /\ pc = "return"
  /\ bucket \in OfKind(this, "Bucket")
  /\ Len(Children(this)) > bucket

\* C5: the network is declared with range 10.0.0.0/16, maxAzs 1 and one subnet
\* group: "Public", public, /24, no public IP on launch.
C5_Network ==
  \A k \in 1..Len(stacks) : \A n \in OfKind(k, "Vpc") :
    LET p == Children(k)[n].props
    IN  /\ p.ipAddresses = "10.0.0.0/16"
        /\ p.maxAzs = 1
        /\ Len(p.subnetConfiguration) = 1
        /\ p.subnetConfiguration[1].name = "Public"
        /\ p.subnetConfiguration[1].subnetType = "PUBLIC"
        /\ p.subnetConfiguration[1].cidrMask = 24
        /\ p.subnetConfiguration[1].mapPublicIpOnLaunch = FALSE

\* a network has been declared
C5_Witness == this # 0 /\ vpc \in OfKind(this, "Vpc")

\* C6: when the constructor has finished, the managed policies of the bastion
\* host's role include AdministratorAccess.
C6_AdminPolicy ==
  \A k \in 1..Len(stacks) :
    Finished(k) =>
      \E n \in OfKind(k, "BastionHostLinux") :
        \E i \in 1..Len(Children(k)[n].role.managedPolicies) :
          Children(k)[n].role.managedPolicies[i].managedPolicyName = "AdministratorAccess"

\* a constructor has finished, the policy attached to the role of its host
C6_Witness ==
  /\ pc = "return"
  /\ Len(Children(this)[bastion].role.managedPolicies) > 0

\* C7: a construction with no properties ends with exactly one network, two
\* security groups, one bucket and one compute instance, and the references
\* between them form no cycle.
C7_Tree ==
  \A k \in 1..Len(stacks) :
    (Finished(k) /\ stacks[k].props = Undefined) =>
      /\ Cardinality(OfKind(k, "Vpc")) = 1
      /\ Cardinality(OfKind(k, "SecurityGroup")) = 2
      /\ Cardinality(OfKind(k, "Bucket")) = 1
      /\ Cardinality(OfKind(k, "BastionHostLinux")) = 1
      /\ Acyclic(k)

\* a construction with no properties has finished, its references in place
C7_Witness ==
  /\ pc = "return"
  /\ stacks[this].props = Undefined
  /\ Reach(this, {bastion}, 1) = {vpc, bastionSg}
  /\ Reach(this, {allowFromBastionSg}, 1) = {vpc, bastionSg}

\* C8: the bastion host is named "bastion", is in the stack's network, has the
\* bastion group as its security group, and has one block device, /dev/xvda of
\* size 30.
C8_BastionHost ==
  \A k \in 1..Len(stacks) : \A n \in OfKind(k, "BastionHostLinux") :
    LET p == Children(k)[n].props
    IN  /\ p.instanceName = "bastion"
        /\ p.vpc \in OfKind(k, "Vpc")
        /\ p.securityGroup \in ById(k, "from-bastion") \cap OfKind(k, "SecurityGroup")
        /\ p.blockDevices = <<[deviceName |-> "/dev/xvda", volume |-> [ebs |-> 30]]>>

\* a bastion host has been declared
C8_Witness == this # 0 /\ bastion \in OfKind(this, "BastionHostLinux")

\* C9: the entities of a run are created once each, in the order network,
\* bastion group, internal group, bucket, bastion host; a statement that uses
\* an entity runs when that entity exists; a running constructor can always
\* take its next statement, and a finished one has created all five.
C9_Order ==
  /\ \A k \in 1..Len(stacks) :
       /\ Len(Children(k)) <= Len(Entities)
       /\ \A n \in Handles(k) :
            /\ <<Children(k)[n].kind, Children(k)[n].id>> = Entities[n]
            /\ \A m \in Refs(Children(k)[n]) : m \in Handles(k) /\ m # n
            /\ Children(k)[n].kind \in {"SecurityGroup", "BastionHostLinux"} =>
                 Children(k)[n].props.vpc < n
            /\ Children(k)[n].kind = "BastionHostLinux" =>
                 Children(k)[n].props.securityGroup < n
       /\ Finished(k) => Len(Children(k)) = Len(Entities)
  /\ pc \in {"bastionSg", "allowFromBastionSg", "bastion"} => vpc \in OfKind(this, "Vpc")
  /\ pc \in {"addIngressRule", "bastion"} => bastionSg \in ById(this, "from-bastion")
  /\ pc = "addIngressRule" => allowFromBastionSg \in ById(this, "allow-from-bastion")
  /\ pc = "addManagedPolicy" => bastion \in OfKind(this, "BastionHostLinux")
  /\ this # 0 => ENABLED Step

\* a run is at its end with the five entities created
C9_Witness ==
  /\ pc = "return"
  /\ Len(Children(this)) = 5
  /\ <<vpc, bastionSg, allowFromBastionSg, bucket, bastion>> = <<1, 2, 3, 4, 5>>

\* C10: any two constructions, whatever their scope, id and props, declare the
\* same bucket name.
C10_NameIgnoresInputs ==
  \A j \in 1..Len(stacks), k \in 1..Len(stacks) :
    \A m \in OfKind(j, "Bucket"), n \in OfKind(k, "Bucket") :
      Children(j)[m].props.bucketName = Children(k)[n].props.bucketName

\* two stacks of one application, with different ids and different props, have
\* each declared their bucket
C10_Witness ==
  /\ Len(stacks) = 2
  /\ stacks[1].scope = stacks[2].scope
  /\ stacks[1].id # stacks[2].id
  /\ stacks[1].props # stacks[2].props
  /\ \A k \in 1..2 : OfKind(k, "Bucket") # {}

====
